---- MODULE Spec2Model ----
(***************************************************************************)
(* Model of streamlit_app.py (Canave IA): the SQL guardrail run_query, the *)
(* two read-only tools, call_tool, and the chat prompt handler with its    *)
(* session conversation log.                                               *)
(*                                                                         *)
(* Python values are modelled as follows.  A str that the code inspects    *)
(* character by character (the SQL text) is a sequence of one-character    *)
(* strings; every other str is a TLA+ string.  None is the string NoneVal. *)
(* The outcome of a call is a record: Ok(v) for "returned v", Raise(e, m)  *)
(* for "raised exception e with str(e) = m".  A parsed JSON value or a     *)
(* tool result is tagged with its Python type: Dict(r) or List(s).         *)
(***************************************************************************)
EXTENDS Integers, Sequences, FiniteSets, TLC

VARIABLES
    OPENAI_API_KEY,  \* configuration: "" when the key is not configured
    creds,           \* configuration: SQL_SERVER, SQL_DATABASE, SQL_USER, SQL_PASSWORD
    connCache,       \* st.cache_resource holds a connection made by get_conn
    messages,        \* st.session_state.messages, the conversation log
    pc,              \* position of the script run that handles a prompt
    prompt,          \* the prompt st.chat_input gave the running script
    msg,             \* r1.choices[0].message of the running submission
    tcIdx,           \* index of the next tool call of msg.tool_calls to handle
    llmCalls,        \* history: requests sent to the LLM endpoint by this submission
    base,            \* history: length of the log when this submission started
    excs,            \* history: per handled tool call, the exception call_tool raised (exc "" if none)
    crashAt,         \* history: statement at which the running script died ("" if it did not)
    sql,             \* function harness: SQL text given to run_query
    tname,           \* function harness: tool name given to call_tool
    targs,           \* function harness: arguments given to call_tool
    fnPc,            \* function harness: "in" before the call, "out" after it
    fnOut,           \* function harness: outcome of the call
    fnEv             \* function harness: database/accessor events of the call

cfgVars  == <<OPENAI_API_KEY, creds>>
sessVars == <<messages, pc, prompt, msg, tcIdx, llmCalls, base, excs, crashAt>>
fnVars   == <<sql, tname, targs, fnPc, fnOut, fnEv>>
vars     == <<OPENAI_API_KEY, creds, connCache, messages, pc, prompt, msg, tcIdx, llmCalls,
              base, excs, crashAt, sql, tname, targs, fnPc, fnOut, fnEv>>

----------------------------------------------------------------------------
(* Bounds of the model. *)

MaxLog == 6
MaxToolCalls == 2
MaxPad == 1
MaxTopN == 2

----------------------------------------------------------------------------
(* Python values. *)

NoneVal == "<None>"

Ok(v) == [kind |-> "ok", v |-> v, exc |-> "", text |-> ""]
Raise(e, m) == [kind |-> "raise", v |-> <<>>, exc |-> e, text |-> m]

Dict(r) == [t |-> "dict", v |-> r]
List(s) == [t |-> "list", v |-> s]

(* Outcome of a call together with the events it caused and the connection *)
(* cache it leaves behind.                                                 *)
Eff(res, ev, cache) == [res |-> res, ev |-> ev, cache |-> cache]

----------------------------------------------------------------------------
(* str.strip(), str.lower(), str.startswith() on character sequences. *)

Whitespace == {" ", "\t", "\n", "\r"}

UpperChars == <<"A", "B", "C", "D", "E", "F", "G", "H", "I", "J", "K", "L", "M",
                "N", "O", "P", "Q", "R", "S", "T", "U", "V", "W", "X", "Y", "Z">>
LowerChars == <<"a", "b", "c", "d", "e", "f", "g", "h", "i", "j", "k", "l", "m",
                "n", "o", "p", "q", "r", "s", "t", "u", "v", "w", "x", "y", "z">>

LowerChar(c) ==
    IF \E k \in 1..Len(UpperChars) : UpperChars[k] = c
    THEN LowerChars[CHOOSE k \in 1..Len(UpperChars) : UpperChars[k] = c]
    ELSE c

lower(s) == [k \in 1..Len(s) |-> LowerChar(s[k])]

RECURSIVE lstrip(_)
lstrip(s) ==
    IF s # <<>> /\ Head(s) \in Whitespace THEN lstrip(Tail(s)) ELSE s

RECURSIVE rstrip(_)
rstrip(s) ==
    IF s # <<>> /\ s[Len(s)] \in Whitespace THEN rstrip(SubSeq(s, 1, Len(s) - 1)) ELSE s

strip(s) == rstrip(lstrip(s))

startswith(s, p) == Len(s) >= Len(p) /\ SubSeq(s, 1, Len(p)) = p

SelectWord == <<"s", "e", "l", "e", "c", "t">>
ExecWord == <<"e", "x", "e", "c">>

----------------------------------------------------------------------------
(* 2) Conexion SQL *)

CredNames == {"SQL_SERVER", "SQL_DATABASE", "SQL_USER", "SQL_PASSWORD"}

(* all([SQL_SERVER, SQL_DATABASE, SQL_USER, SQL_PASSWORD]): every one non-empty *)
all_creds(cr) == \A n \in CredNames : cr[n] # ""

MsgCreds == "Faltan credenciales SQL en secrets/env (SQL_SERVER, SQL_DATABASE, SQL_USER, SQL_PASSWORD)."
MsgGuard == "Solo se permiten consultas SELECT o EXEC de SPs controlados."
MsgConnect == "pyodbc.Error: login timeout expired"
MsgQuery == "Execution failed on sql"

(* What the database server and driver do when reached: the connection    *)
(* attempt fails, the query fails, or the query returns its row, whose     *)
(* date column the driver delivers as a datetime.date or as a str.         *)
DbOutcomes == {"connect_fail", "query_fail", "rows_date", "rows_str"}

(* Mutant of get_conn: the credentials are not checked. *)
get_conn_nocheck(cr, cache, db) ==
    IF cache THEN Eff(Ok("conn"), <<"get_conn">>, TRUE)
    ELSE IF db = "connect_fail"
         THEN Eff(Raise("pyodbc.Error", MsgConnect), <<"get_conn", "connect">>, FALSE)
         ELSE Eff(Ok("conn"), <<"get_conn", "connect">>, TRUE)

get_conn(cr, cache, db) ==
    IF cache THEN Eff(Ok("conn"), <<"get_conn">>, TRUE)
    ELSE IF ~all_creds(cr)
         THEN Eff(Raise("RuntimeError", MsgCreds), <<"get_conn">>, FALSE)
         ELSE IF db = "connect_fail"
              THEN Eff(Raise("pyodbc.Error", MsgConnect), <<"get_conn", "connect">>, FALSE)
              ELSE Eff(Ok("conn"), <<"get_conn", "connect">>, TRUE)

(* The frame pd.read_sql builds from the placeholder query's single row. *)
read_sql(params, db) ==
    <<[Fecha |-> IF db = "rows_date" THEN [pytype |-> "date", iso |-> "2026-10-31"]
                 ELSE [pytype |-> "str", iso |-> "2026-10-31"],
       Sucursal |-> IF params = <<>> THEN NoneVal ELSE params[1],
       VentaNeta |-> "0.0",
       Tickets |-> 0]>>

(* Mutant of run_query: the guardrail is missing. *)
run_query_noguard(q, params, cr, cache, db) ==
    LET c == get_conn(cr, cache, db) IN
    IF c.res.kind = "raise" THEN c
    ELSE IF db = "query_fail"
         THEN Eff(Raise("DatabaseError", MsgQuery), c.ev \o <<"read_sql">>, c.cache)
         ELSE Eff(Ok(read_sql(params, db)), c.ev \o <<"read_sql">>, c.cache)

run_query(q, params, cr, cache, db) ==
    LET sql_strip == lower(strip(q)) IN
    IF ~startswith(sql_strip, SelectWord) /\ ~startswith(sql_strip, ExecWord)
    THEN Eff(Raise("ValueError", MsgGuard), <<>>, cache)
    ELSE LET c == get_conn(cr, cache, db) IN
         IF c.res.kind = "raise" THEN c
         ELSE IF db = "query_fail"
              THEN Eff(Raise("DatabaseError", MsgQuery), c.ev \o <<"read_sql">>, c.cache)
              ELSE Eff(Ok(read_sql(params, db)), c.ev \o <<"read_sql">>, c.cache)

----------------------------------------------------------------------------
(* 3) Herramientas permitidas (Tools) *)

(* The SQL text of ventas_ayer: the triple-quoted literal begins with a    *)
(* newline and indentation, then SELECT; the select list is abbreviated.   *)
VentasAyerSql ==
    <<"\n", " ", " ", " ", " ", "S", "E", "L", "E", "C", "T", "\n",
      " ", "?", " ", "A", "S", " ", "S", "u", "c", "u", "r", "s", "a", "l", "\n", " ">>

ventas_ayer(sucursal, cr, cache, db) ==
    LET df == run_query(VentasAyerSql, <<sucursal>>, cr, cache, db) IN
    IF df.res.kind = "raise" THEN df
    ELSE Eff(Ok(List(df.res.v)), df.ev, df.cache)

(* Mutant of head: the frame is returned whole. *)
head_all(rows, n) == rows

(* DataFrame.head(n) is iloc[:n]: the first n rows, and for negative n all *)
(* rows but the last -n.                                                   *)
head(rows, n) ==
    IF n >= 0
    THEN SubSeq(rows, 1, IF n < Len(rows) THEN n ELSE Len(rows))
    ELSE SubSeq(rows, 1, IF Len(rows) + n > 0 THEN Len(rows) + n ELSE 0)

(* sucursal or "TODAS" *)
or_todas(sucursal) == IF sucursal = NoneVal \/ sucursal = "" THEN "TODAS" ELSE sucursal

top_productos_mes(anio, mes, top_n, sucursal) ==
    List(head(<<[Anio |-> anio,
                 Mes |-> mes,
                 Sucursal |-> or_todas(sucursal),
                 ArticuloId |-> "",
                 Articulo |-> "Pendiente de conectar a datos reales",
                 Unidades |-> 0,
                 VentaNeta |-> "0.0"]>>, top_n))

----------------------------------------------------------------------------
(* 4) Definicion de Tools para el modelo *)

TOOLS == <<"ventas_ayer", "top_productos_mes">>

(* Keyword unpacking of args into f: args must be a mapping whose keys are parameters of f and    *)
(* include every parameter without a default; "" when the call binds,      *)
(* otherwise the TypeError's text.                                         *)
bind_error(name, args, required, optional) ==
    IF args.t # "dict"
    THEN name \o "() argument after ** must be a mapping, not " \o args.t
    ELSE IF ~(DOMAIN args.v \subseteq (required \cup optional))
         THEN name \o "() got an unexpected keyword argument"
         ELSE IF ~(required \subseteq DOMAIN args.v)
              THEN name \o "() missing required positional arguments"
              ELSE ""

(* Mutant of call_tool: a name that is not registered falls through to the *)
(* first accessor.                                                         *)
call_tool_fallthrough(name, args, cr, cache, db) ==
    IF name = "top_productos_mes"
    THEN LET err == bind_error(name, args, {"anio", "mes", "top_n"}, {"sucursal"}) IN
         IF err # "" THEN Eff(Raise("TypeError", err), <<>>, cache)
         ELSE Eff(Ok(top_productos_mes(args.v.anio, args.v.mes, args.v.top_n,
                       IF "sucursal" \in DOMAIN args.v THEN args.v.sucursal ELSE NoneVal)),
                  <<"top_productos_mes">>, cache)
    ELSE LET err == bind_error(name, args, {"sucursal"}, {}) IN
         IF err # "" THEN Eff(Raise("TypeError", err), <<>>, cache)
         ELSE LET r == ventas_ayer(args.v.sucursal, cr, cache, db) IN
              Eff(r.res, <<"ventas_ayer">> \o r.ev, r.cache)

call_tool(name, args, cr, cache, db) ==
    IF name = "ventas_ayer"
    THEN LET err == bind_error(name, args, {"sucursal"}, {}) IN
         IF err # "" THEN Eff(Raise("TypeError", err), <<>>, cache)
         ELSE LET r == ventas_ayer(args.v.sucursal, cr, cache, db) IN
              Eff(r.res, <<"ventas_ayer">> \o r.ev, r.cache)
    ELSE IF name = "top_productos_mes"
         THEN LET err == bind_error(name, args, {"anio", "mes", "top_n"}, {"sucursal"}) IN
              IF err # "" THEN Eff(Raise("TypeError", err), <<>>, cache)
              ELSE Eff(Ok(top_productos_mes(args.v.anio, args.v.mes, args.v.top_n,
                            IF "sucursal" \in DOMAIN args.v THEN args.v.sucursal ELSE NoneVal)),
                       <<"top_productos_mes">>, cache)
         ELSE Eff(Ok(Dict([error |-> "Tool no permitida: " \o name])), <<>>, cache)

----------------------------------------------------------------------------
(* json.loads and json.dumps *)

(* The argument texts the model can emit and the value json.loads gives    *)
(* for each; any other text is not JSON and json.loads raises.             *)
ArgTable ==
    << [text |-> "{\"sucursal\": \"Tamazula 1\"}",
        value |-> Dict([sucursal |-> "Tamazula 1"])],
       [text |-> "{\"anio\": 2026, \"mes\": 1, \"top_n\": 10}",
        value |-> Dict([anio |-> 2026, mes |-> 1, top_n |-> 10])],
       [text |-> "{\"anio\": 2026, \"mes\": 1, \"top_n\": -1, \"sucursal\": null}",
        value |-> Dict([anio |-> 2026, mes |-> 1, top_n |-> -1, sucursal |-> NoneVal])],
       [text |-> "{}",
        value |-> Dict(<<>>)],
       [text |-> "{\"tienda\": \"Tamazula 1\"}",
        value |-> Dict([tienda |-> "Tamazula 1"])],
       [text |-> "[1]",
        value |-> List(<<1>>)] >>

TruncatedArgs == "{\"sucursal\": \"Tama"

json_loads(text) ==
    IF \E k \in 1..Len(ArgTable) : ArgTable[k].text = text
    THEN Ok(ArgTable[CHOOSE k \in 1..Len(ArgTable) : ArgTable[k].text = text].value)
    ELSE Raise("JSONDecodeError", "Expecting value")

json_str(s) == IF s = NoneVal THEN "null" ELSE "\"" \o s \o "\""

(* One row of a tool result: a ventas_ayer row holds the database's date   *)
(* column, which json.dumps cannot encode when it is a datetime.date.      *)
dumps_row(row) ==
    IF "Fecha" \in DOMAIN row
    THEN IF row.Fecha.pytype = "date"
         THEN Raise("TypeError", "Object of type date is not JSON serializable")
         ELSE Ok("{\"Fecha\": " \o json_str(row.Fecha.iso)
                 \o ", \"Sucursal\": " \o json_str(row.Sucursal)
                 \o ", \"VentaNeta\": " \o row.VentaNeta
                 \o ", \"Tickets\": " \o ToString(row.Tickets) \o "}")
    ELSE Ok("{\"Anio\": " \o ToString(row.Anio)
            \o ", \"Mes\": " \o ToString(row.Mes)
            \o ", \"Sucursal\": " \o json_str(row.Sucursal)
            \o ", \"ArticuloId\": " \o json_str(row.ArticuloId)
            \o ", \"Articulo\": " \o json_str(row.Articulo)
            \o ", \"Unidades\": " \o ToString(row.Unidades)
            \o ", \"VentaNeta\": " \o row.VentaNeta \o "}")

RECURSIVE dumps_rows(_)
dumps_rows(rows) ==
    IF rows = <<>> THEN Ok("")
    ELSE LET h == dumps_row(Head(rows))
             t == dumps_rows(Tail(rows)) IN
         IF h.kind = "raise" THEN h
         ELSE IF t.kind = "raise" THEN t
              ELSE Ok(h.v \o (IF Tail(rows) = <<>> THEN "" ELSE ", ") \o t.v)

(* json.dumps(data, ensure_ascii=False) *)
json_dumps(data) ==
    IF data.t = "dict"
    THEN Ok("{\"error\": " \o json_str(data.v.error) \o "}")
    ELSE LET r == dumps_rows(data.v) IN
         IF r.kind = "raise" THEN r ELSE Ok("[" \o r.v \o "]")

----------------------------------------------------------------------------
(* 1) Secrets / configuracion, and the state of a fresh session *)

(* Every way the four SQL settings can be present ("x") or absent (""). *)
CredConfigs == [CredNames -> {"", "x"}]

SystemPrompt ==
    "Eres un asistente interno para consultas operativas. No inventes cifras. Si necesitas datos, usa tools. Si el usuario pide algo fuera de las tools, explica que dato falta."

NoMsg == [content |-> NoneVal, tool_calls |-> <<>>]

(* A session before its first prompt: the log holds the system entry only. *)
FreshChat ==
    /\ messages = <<[role |-> "system", content |-> SystemPrompt]>>
    /\ pc = "idle"
    /\ prompt = NoneVal
    /\ msg = NoMsg
    /\ tcIdx = 0
    /\ llmCalls = <<>>
    /\ base = 1
    /\ excs = <<>>
    /\ crashAt = ""

IdleFn ==
    /\ sql = <<>>
    /\ tname = ""
    /\ targs = Dict(<<>>)
    /\ fnPc = "idle"
    /\ fnOut = Ok(NoneVal)
    /\ fnEv = <<>>

----------------------------------------------------------------------------
(* run_query on its own: every SQL text of SqlTexts, under every setting   *)
(* of the credentials and every behaviour of the database.                 *)

RECURSIVE PadsUpTo(_)
PadsUpTo(n) ==
    IF n = 0 THEN {<<>>}
    ELSE PadsUpTo(n - 1) \cup {Append(p, w) : p \in PadsUpTo(n - 1), w \in {" ", "\n"}}

SqlBodies ==
    << <<"S", "E", "L", "E", "C", "T", " ", "1">>,
       <<"s", "e", "l", "e", "c", "t", " ", "1">>,
       <<"S", "e", "L", "e", "C", "t">>,
       <<"E", "X", "E", "C", " ", "s", "p">>,
       <<"e", "x", "e", "c">>,
       <<"E", "x", "e", "c", "u", "t", "e">>,
       <<"s", "e", "l", "e", "c">>,
       <<"s", "e", "l", " ", "e", "c", "t">>,
       <<"e", "x", "e">>,
       <<"D", "R", "O", "P", " ", "t">>,
       <<"d", "e", "l", "e", "t", "e">>,
       <<"U", "P", "D", "A", "T", "E", " ", "t">>,
       <<";", "s", "e", "l", "e", "c", "t">>,
       <<"-", "-", "\n", "s", "e", "l", "e", "c", "t">>,
       <<"x", "S", "E", "L", "E", "C", "T">>,
       <<>> >>

InitQuery ==
    /\ OPENAI_API_KEY \in {"", "sk-test"}
    /\ creds \in CredConfigs
    /\ connCache \in (IF all_creds(creds) THEN BOOLEAN ELSE {FALSE})
    /\ FreshChat
    /\ \E b \in 1..Len(SqlBodies), lead \in PadsUpTo(MaxPad), trail \in PadsUpTo(MaxPad) :
          sql = lead \o SqlBodies[b] \o trail
    /\ tname = ""
    /\ targs = Dict(<<>>)
    /\ fnPc = "in"
    /\ fnOut = Ok(NoneVal)
    /\ fnEv = <<>>

RunQuery ==
    /\ fnPc = "in"
    /\ \E db \in DbOutcomes :
          LET r == run_query(sql, <<"Tamazula 1">>, creds, connCache, db) IN
          /\ fnOut' = r.res
          /\ fnEv' = r.ev
          /\ connCache' = r.cache
    /\ fnPc' = "out"
    /\ UNCHANGED <<cfgVars, sessVars, sql, tname, targs>>

NextQuery == RunQuery

SpecQuery == InitQuery /\ [][NextQuery]_vars

----------------------------------------------------------------------------
(* call_tool on its own: every tool name of ToolNames with every argument  *)
(* value of ArgsOf.                                                        *)

ToolNames == {"ventas_ayer", "top_productos_mes", "borrar_ventas", ""}
ArgShapes == {"sucursal", "top3", "top4", "empty", "extra", "list"}
Sucursales == {NoneVal, "", "Tamazula 1"}
Anios == {2025, 2026}
Meses == {1, 12}
TopNs == (0 - MaxTopN)..MaxTopN

ArgsOf(shape, anio, mes, top_n, suc) ==
    CASE shape = "sucursal" -> Dict([sucursal |-> suc])
      [] shape = "top3" -> Dict([anio |-> anio, mes |-> mes, top_n |-> top_n])
      [] shape = "top4" -> Dict([anio |-> anio, mes |-> mes, top_n |-> top_n, sucursal |-> suc])
      [] shape = "empty" -> Dict(<<>>)
      [] shape = "extra" -> Dict([tienda |-> suc])
      [] OTHER -> List(<<1>>)

InitTool ==
    /\ OPENAI_API_KEY \in {"", "sk-test"}
    /\ creds \in CredConfigs
    /\ connCache \in (IF all_creds(creds) THEN BOOLEAN ELSE {FALSE})
    /\ FreshChat
    /\ sql = <<>>
    /\ tname \in ToolNames
    /\ \E shape \in ArgShapes, anio \in Anios, mes \in Meses, top_n \in TopNs, suc \in Sucursales :
          targs = ArgsOf(shape, anio, mes, top_n, suc)
    /\ fnPc = "in"
    /\ fnOut = Ok(NoneVal)
    /\ fnEv = <<>>

CallTool ==
    /\ fnPc = "in"
    /\ \E db \in DbOutcomes :
          LET r == call_tool(tname, targs, creds, connCache, db) IN
          /\ fnOut' = r.res
          /\ fnEv' = r.ev
          /\ connCache' = r.cache
    /\ fnPc' = "out"
    /\ UNCHANGED <<cfgVars, sessVars, sql, tname, targs>>

NextTool == CallTool

SpecTool == InitTool /\ [][NextTool]_vars

----------------------------------------------------------------------------
(* C2: run_query raises ValueError, with no connection acquired and no     *)
(* query executed, for every SQL text that after strip() and lower() does  *)
(* not start with "select" or "exec"; only texts that start with one of    *)
(* the two reach the database.                                             *)
C2_GuardrailBeforeDatabase ==
    fnPc = "out" =>
        LET permitted == \/ startswith(lower(strip(sql)), SelectWord)
                         \/ startswith(lower(strip(sql)), ExecWord) IN
        /\ ~permitted => /\ fnOut.kind = "raise"
                         /\ fnOut.exc = "ValueError"
                         /\ fnEv = <<>>
        /\ fnEv # <<>> => permitted

(* A rejected text with surrounding whitespace and upper-case letters. *)
C2_Witness ==
    /\ fnPc = "out"
    /\ sql = <<" ", "D", "R", "O", "P", " ", "t", "\n">>
    /\ fnOut.exc = "ValueError"

(* C4: call_tool with a name other than the two registered tools returns   *)
(* the error payload naming the tool, never raises, and calls neither      *)
(* accessor nor the database, whatever the arguments.                      *)
C4_UnregisteredToolPayload ==
    (fnPc = "out" /\ tname \notin {"ventas_ayer", "top_productos_mes"}) =>
        /\ fnOut.kind = "ok"
        /\ fnOut.v.t = "dict"
        /\ fnOut.v.v = [error |-> "Tool no permitida: " \o tname]
        /\ fnEv = <<>>

(* An unregistered name called with arguments that are not even a mapping. *)
C4_Witness ==
    /\ fnPc = "out"
    /\ tname = "borrar_ventas"
    /\ targs.t = "list"
    /\ fnOut.kind = "ok"

TopCall ==
    /\ fnPc = "out"
    /\ tname = "top_productos_mes"
    /\ fnOut.kind = "ok"

(* C5 as stated: for every integer top_n, negative ones included,          *)
(* top_productos_mes returns at most top_n rows.                           *)
C5_AtMostTopN ==
    TopCall => Len(fnOut.v.v) <= targs.v.top_n

(* C5 as amended: for every top_n >= 0 top_productos_mes returns at most   *)
(* top_n rows, and for every negative top_n it returns no row.             *)
C5_AtMostTopNOrEmpty ==
    TopCall => /\ targs.v.top_n >= 0 => Len(fnOut.v.v) <= targs.v.top_n
               /\ targs.v.top_n < 0 => fnOut.v.v = <<>>

(* top_n = 0 cuts the one-row placeholder frame down to no row. *)
C5_Witness ==
    /\ TopCall
    /\ targs.v.top_n = 0
    /\ fnOut.v.v = <<>>

----------------------------------------------------------------------------
(* 5) Chat UI: the script run that handles one submitted prompt.  The run  *)
(* blocks at the two requests to the LLM endpoint, so it is modelled in    *)
(* steps: Submit (up to the first request), FirstCompletion (the first     *)
(* response and what follows it up to the tool loop), HandleToolCall (one  *)
(* iteration of the tool loop), SecondCompletion.  An exception that no    *)
(* except clause catches ends the run (pc = "crashed"); the session and    *)
(* its log live on and the next prompt starts a new run.                   *)

Prompts == {"Cuanto vendio ayer Tamazula 1?", "Top 10 productos del mes 2026-01"}

NoKeyText ==
    "Falta configurar OPENAI_API_KEY. En cuanto lo configures, habilito las respuestas IA."

Roles == {"system", "user", "assistant", "tool"}

(* Mutant of not_key: the key is taken as configured whatever it holds. *)
not_key_never(key) == FALSE

(* not OPENAI_API_KEY *)
not_key(key) == key = ""

(* content or "" *)
or_empty(content) == IF content = NoneVal \/ content = "" THEN "" ELSE content

user_entry(p) == [role |-> "user", content |-> p]

assistant_entry(text) == [role |-> "assistant", content |-> text]

(* Mutant of tool_entry: the role of the superseded function-calling API. *)
tool_entry_function(id, content) ==
    [role |-> "function", tool_call_id |-> id, content |-> content]

(* Mutant of tool_entry: every entry is tagged with the first call's id. *)
tool_entry_first_id(id, content) ==
    [role |-> "tool", tool_call_id |-> "call_1", content |-> content]

tool_entry(id, content) ==
    [role |-> "tool", tool_call_id |-> id, content |-> content]

(* What the model may ask for in one tool call: a name and an arguments    *)
(* text.  Both are the model's free choice, so the menu holds well-formed  *)
(* calls of both tools, an unregistered name, arguments that do not match  *)
(* the signature, and an arguments text cut off before its end.            *)
ToolCallMenu ==
    { <<"ventas_ayer", ArgTable[1].text>>,
      <<"ventas_ayer", TruncatedArgs>>,
      <<"ventas_ayer", ArgTable[4].text>>,
      <<"top_productos_mes", ArgTable[2].text>>,
      <<"top_productos_mes", ArgTable[3].text>>,
      <<"borrar_ventas", ArgTable[4].text>> }

CallId(k) == "call_" \o ToString(k)

RECURSIVE ToolCallSeqs(_)
ToolCallSeqs(n) ==
    IF n = 0 THEN {<<>>}
    ELSE LET shorter == ToolCallSeqs(n - 1) IN
         shorter \cup
         { Append(s, [id |-> CallId(Len(s) + 1), name |-> c[1], arguments |-> c[2]]) :
             s \in {t \in shorter : Len(t) = n - 1}, c \in ToolCallMenu }

(* The messages the first completion can answer with: a text (or no        *)
(* content) and no tool call, or one to MaxToolCalls tool calls, as many   *)
(* as the log has room for.                                                *)
FirstResponses(room) ==
    { [content |-> c, tool_calls |-> <<>>] : c \in {NoneVal, "Respuesta del modelo"} }
    \cup { [content |-> NoneVal, tool_calls |-> s] :
              s \in ToolCallSeqs(IF room < MaxToolCalls THEN room ELSE MaxToolCalls) \ {<<>>} }

SecondContents == {NoneVal, "Respuesta con datos"}

Request(history, tools, tool_choice) ==
    [messages |-> history, tools |-> tools, tool_choice |-> tool_choice]

(* The settings a session is run under: all four present, all four        *)
(* absent, the password alone absent.                                      *)
ChatCredConfigs ==
    { [n \in CredNames |-> "x"],
      [n \in CredNames |-> ""],
      [n \in CredNames |-> IF n = "SQL_PASSWORD" THEN "" ELSE "x"] }

Init ==
    /\ OPENAI_API_KEY \in {"", "sk-test"}
    /\ creds \in ChatCredConfigs
    /\ connCache = FALSE
    /\ FreshChat
    /\ IdleFn

(* Lines 162-175: a prompt arrives, is logged, and without an API key is   *)
(* answered with the fixed text, after which st.rerun() ends the run.      *)
Submit ==
    /\ pc \in {"idle", "done", "crashed"}
    /\ Len(messages) + 2 <= MaxLog
    /\ \E p \in Prompts :
          /\ prompt' = p
          /\ IF not_key(OPENAI_API_KEY)
             THEN /\ messages' = Append(Append(messages, user_entry(p)),
                                        assistant_entry(NoKeyText))
                  /\ pc' = "done"
             ELSE /\ messages' = Append(messages, user_entry(p))
                  /\ pc' = "r1"
    /\ base' = Len(messages)
    /\ msg' = NoMsg
    /\ tcIdx' = 0
    /\ llmCalls' = <<>>
    /\ excs' = <<>>
    /\ crashAt' = ""
    /\ UNCHANGED <<cfgVars, connCache, fnVars>>

(* Lines 178-187 and 212-217: the first request, with the tool manifest;   *)
(* the endpoint fails, or answers with text, or answers with tool calls.   *)
FirstCompletion ==
    /\ pc = "r1"
    /\ llmCalls' = Append(llmCalls, Request(messages, TOOLS, "auto"))
    /\ \/ /\ pc' = "crashed"
          /\ crashAt' = "r1"
          /\ UNCHANGED <<messages, msg, tcIdx>>
       \/ \E m \in FirstResponses(MaxLog - Len(messages) - 1) :
             /\ msg' = m
             /\ crashAt' = crashAt
             /\ IF m.tool_calls # <<>>
                THEN /\ pc' = "tools"
                     /\ tcIdx' = 1
                     /\ messages' = messages
                ELSE /\ pc' = "done"
                     /\ tcIdx' = tcIdx
                     /\ messages' = Append(messages, assistant_entry(or_empty(m.content)))
    /\ UNCHANGED <<cfgVars, connCache, prompt, base, excs, fnVars>>

(* Lines 188-200: one iteration of the tool loop.  json.loads and          *)
(* json.dumps stand outside the try block; call_tool stands inside it.     *)
HandleToolCall ==
    /\ pc = "tools"
    /\ \E db \in DbOutcomes :
          LET tc == msg.tool_calls[tcIdx]
              tool_args == json_loads(tc.arguments)
          IN
          IF tool_args.kind = "raise"
          THEN /\ pc' = "crashed"
               /\ crashAt' = "json.loads"
               /\ UNCHANGED <<connCache, messages, tcIdx, excs>>
          ELSE LET r == call_tool(tc.name, tool_args.v, creds, connCache, db)
                   data == IF r.res.kind = "raise"
                           THEN Dict([error |-> r.res.text])
                           ELSE r.res.v
                   content == json_dumps(data)
               IN
               /\ connCache' = r.cache
               /\ excs' = Append(excs, [exc |-> r.res.exc, text |-> r.res.text])
               /\ IF content.kind = "raise"
                  THEN /\ pc' = "crashed"
                       /\ crashAt' = "json.dumps"
                       /\ UNCHANGED <<messages, tcIdx>>
                  ELSE /\ messages' = Append(messages, tool_entry(tc.id, content.v))
                       /\ tcIdx' = tcIdx + 1
                       /\ pc' = IF tcIdx = Len(msg.tool_calls) THEN "r2" ELSE "tools"
                       /\ crashAt' = crashAt
    /\ UNCHANGED <<cfgVars, prompt, msg, llmCalls, base, fnVars>>

(* Lines 202-210: the second request, without tools; its text is logged. *)
SecondCompletion ==
    /\ pc = "r2"
    /\ llmCalls' = Append(llmCalls, Request(messages, <<>>, NoneVal))
    /\ \/ /\ pc' = "crashed"
          /\ crashAt' = "r2"
          /\ UNCHANGED messages
       \/ \E c \in SecondContents :
             /\ messages' = Append(messages, assistant_entry(or_empty(c)))
             /\ pc' = "done"
             /\ crashAt' = crashAt
    /\ UNCHANGED <<cfgVars, connCache, prompt, msg, tcIdx, base, excs, fnVars>>

Next ==
    \/ Submit
    \/ FirstCompletion
    \/ HandleToolCall
    \/ SecondCompletion

Spec == Init /\ [][Next]_vars

----------------------------------------------------------------------------
(* Claims about the chat prompt handler, checked under Spec. *)

ErrorPayload(text) == "{\"error\": \"" \o text \o "\"}"

(* C1: with no API key, every submission appends the user entry and then   *)
(* the fixed "Falta configurar OPENAI_API_KEY" assistant entry, and no     *)
(* request is ever sent to the LLM endpoint.                               *)
C1_NoKeyFixedReply ==
    OPENAI_API_KEY = "" =>
        /\ llmCalls = <<>>
        /\ pc \in {"idle", "done"}
        /\ pc = "done" =>
              /\ Len(messages) = base + 2
              /\ messages[base + 1] = [role |-> "user", content |-> prompt]
              /\ messages[base + 2] = [role |-> "assistant", content |-> NoKeyText]

(* Two prompts submitted without a key, each answered with the fixed text. *)
C1_Witness ==
    /\ OPENAI_API_KEY = ""
    /\ pc = "done"
    /\ Len(messages) = 5
    /\ messages[3].content = NoKeyText
    /\ messages[5].content = NoKeyText

(* C3 as stated: no failure while handling a tool call ends the run, and   *)
(* every call whose handling failed has left a tool entry carrying the     *)
(* error payload.                                                          *)
C3_ToolErrorsNeverCrash ==
    /\ crashAt \notin {"json.loads", "json.dumps"}
    /\ \A k \in 1..Len(excs) :
          (excs[k].exc # "" /\ Len(messages) >= base + 1 + k) =>
              /\ messages[base + 1 + k].role = "tool"
              /\ messages[base + 1 + k].content = ErrorPayload(excs[k].text)

(* C6 as stated: when get_conn raises for missing credentials during a     *)
(* tool call, the error propagates uncaught and ends the run.              *)
C6_MissingCredsUnhandled ==
    (\E k \in 1..Len(excs) : excs[k].exc = "RuntimeError") => pc = "crashed"

VentasCallBinds(tc) ==
    /\ tc.name = "ventas_ayer"
    /\ json_loads(tc.arguments).kind = "ok"
    /\ bind_error(tc.name, json_loads(tc.arguments).v, {"sucursal"}, {}) = ""

(* C6 as amended: when any of the four database credentials is missing,    *)
(* connection acquisition raises RuntimeError out of get_conn, run_query,  *)
(* ventas_ayer and call_tool; the tool-call loop, the only caller, catches *)
(* it and appends a tool entry with the error payload holding its message. *)
C6_MissingCredsCaughtByToolLoop ==
    \A k \in 1..Len(excs) :
        (VentasCallBinds(msg.tool_calls[k]) /\ ~all_creds(creds)) =>
            /\ excs[k] = [exc |-> "RuntimeError", text |-> MsgCreds]
            /\ Len(messages) >= base + 1 + k
            /\ messages[base + 1 + k] =
                  [role |-> "tool", tool_call_id |-> msg.tool_calls[k].id,
                   content |-> ErrorPayload(MsgCreds)]

(* A submission that hit the missing credentials and still completed. *)
C6_Witness ==
    /\ pc = "done"
    /\ ~all_creds(creds)
    /\ \E k \in 1..Len(excs) :
          /\ VentasCallBinds(msg.tool_calls[k])
          /\ excs[k].exc = "RuntimeError"

(* C7: the conversation log is append-only and role-valid: every step      *)
(* keeps the entries the log held, unchanged and in place, and every entry *)
(* of the log has one of the roles system, user, assistant, tool.          *)
C7_LogAppendOnly ==
    [][ /\ Len(messages') >= Len(messages)
        /\ SubSeq(messages', 1, Len(messages)) = messages
        /\ \A k \in 1..Len(messages') : messages'[k].role \in Roles ]_vars

(* A log holding two submissions and entries of all four roles. *)
C7_Witness ==
    /\ pc = "done"
    /\ Cardinality({k \in 1..Len(messages) : messages[k].role = "user"}) = 2
    /\ \E k \in 1..Len(messages) : messages[k].role = "tool"
    /\ \E k \in 1..Len(messages) : messages[k].role = "assistant"

(* C8 as stated: with a key set, a submission that got its first response  *)
(* has sent one first request with the tool manifest and tool choice       *)
(* "auto", and a second request, without tools and after every requested   *)
(* tool call was handled, exactly if the first response requested a tool   *)
(* call; it has sent no third request.                                     *)
C8_FixedCallSequence ==
    (OPENAI_API_KEY # "" /\ pc \in {"done", "crashed"} /\ crashAt # "r1") =>
        /\ Len(llmCalls) \in {1, 2}
        /\ llmCalls[1].tools = TOOLS
        /\ llmCalls[1].tool_choice = "auto"
        /\ (Len(llmCalls) = 2) <=> (msg.tool_calls # <<>>)
        /\ Len(llmCalls) = 2 =>
              /\ llmCalls[2].tools = <<>>
              /\ Len(excs) = Len(msg.tool_calls)

(* C9: a completed submission has appended the user entry holding the      *)
(* prompt, then one tool entry per requested tool call, in the order of    *)
(* the request and tagged with the call's id, then one assistant entry.    *)
C9_SubmissionEntries ==
    pc = "done" =>
        LET n == Len(msg.tool_calls) IN
        /\ Len(messages) = base + n + 2
        /\ messages[base + 1] = [role |-> "user", content |-> prompt]
        /\ \A k \in 1..n :
              /\ messages[base + 1 + k].role = "tool"
              /\ messages[base + 1 + k].tool_call_id = msg.tool_calls[k].id
        /\ messages[base + n + 2].role = "assistant"

(* A completed submission whose first response requested two tool calls. *)
C9_Witness ==
    /\ pc = "done"
    /\ Len(msg.tool_calls) = 2
    /\ messages[Len(messages) - 1].role = "tool"

(* C10 as stated: in every history sent to the LLM endpoint, each tool     *)
(* entry comes after an assistant entry that requested a tool call with    *)
(* the same tool_call_id.                                                  *)
C10_ToolEntriesPaired ==
    \A c \in 1..Len(llmCalls) :
        LET h == llmCalls[c].messages IN
        \A k \in 1..Len(h) :
            h[k].role = "tool" =>
                \E j \in 1..(k - 1) :
                    /\ h[j].role = "assistant"
                    /\ "tool_calls" \in DOMAIN h[j]
                    /\ \E t \in 1..Len(h[j].tool_calls) :
                          h[j].tool_calls[t].id = h[k].tool_call_id

====
